---- MODULE Spec2Model ----
(***************************************************************************)
(* scripts/get_keycloak_device_token.py: the OAuth 2.0 device              *)
(* authorization flow of main(), with require_env and post_form.           *)
(*                                                                         *)
(* The program is one sequential thread.  The model's steps are the        *)
(* places where main() blocks on its environment: the environment lookup,  *)
(* the device-authorization call (up to the input() prompt), the           *)
(* operator's input line, the top of a poll iteration (expiry check, then  *)
(* the token request goes out), the arrival of the token response, and     *)
(* time.sleep.  The observable environment is kept as state: the requests  *)
(* sent, the bodies received, the sleep calls, stdout, stderr and the      *)
(* exit status.                                                            *)
(***************************************************************************)
EXTENDS Integers, Sequences, FiniteSets, TLC

(***************************************************************************)
(* Bounds of the model.                                                    *)
(***************************************************************************)
\* the clock (seconds) stops advancing here
MaxTime == 6
\* seconds one HTTP round trip may take
MaxLatency == 2
\* seconds time.sleep may oversleep
MaxOversleep == 1
\* token requests one run may send
MaxPolls == 3
\* largest interval / expires_in the server supplies
MaxHint == 2

(***************************************************************************)
(* Program constants.                                                      *)
(***************************************************************************)
\* init_resp.get("interval", 5)
DefaultInterval == 5
\* init_resp.get("expires_in", 600)
DefaultExpiresIn == 600

(***************************************************************************)
(* JSON values as Python sees them after json.loads.  Every value is a     *)
(* record of one shape: k is the kind, s the text of a string, n the       *)
(* number.  "float" is the number n + 1/2; "numstr" is the string of the   *)
(* decimal digits of n; "null" is None.                                    *)
(***************************************************************************)
JStr(s) == [k |-> "str", s |-> s, n |-> 0]
JInt(n) == [k |-> "int", s |-> "", n |-> n]
JFloat(n) == [k |-> "float", s |-> "", n |-> n]
JNumStr(n) == [k |-> "numstr", s |-> "", n |-> n]
PyNone == [k |-> "null", s |-> "", n |-> 0]

\* Python truthiness: `not value` is ~Truthy(value)
Truthy(v) ==
  CASE v.k = "str" -> v.s # ""
    [] v.k = "numstr" -> TRUE
    [] v.k = "int" -> v.n # 0
    [] v.k = "float" -> TRUE
    [] OTHER -> FALSE

\* a or b
PyOr(a, b) == IF Truthy(a) THEN a ELSE b

\* int(v) raises TypeError on None and ValueError on a non-numeric string
IntRaises(v) == v.k \in {"null", "str"}

\* int(v) where it returns: an int is itself, a float is truncated toward
\* zero, a string of digits is parsed
PyInt(v) == v.n

(***************************************************************************)
(* A dict is a sequence of <<key, value>> pairs with distinct keys, in     *)
(* insertion order.                                                        *)
(***************************************************************************)
Keys(d) == {d[i][1] : i \in 1..Len(d)}

\* key in d
Has(d, key) == key \in Keys(d)

\* GetOr, wrongly written `d.get(key) or default`: a supplied 0 is replaced
GetOr_OrDefault(d, key, default) ==
  IF Has(d, key) /\ Truthy(d[CHOOSE i \in 1..Len(d) : d[i][1] = key][2])
    THEN d[CHOOSE i \in 1..Len(d) : d[i][1] = key][2]
    ELSE default

\* d.get(key, default)
GetOr(d, key, default) ==
  IF Has(d, key)
    THEN d[CHOOSE i \in 1..Len(d) : d[i][1] = key][2]
    ELSE default

\* d.get(key)
Get(d, key) == GetOr(d, key, PyNone)

\* d[key] = value
DictSet(d, key, value) ==
  IF Has(d, key)
    THEN [i \in 1..Len(d) |-> IF d[i][1] = key THEN <<key, value>> ELSE d[i]]
    ELSE Append(d, <<key, value>>)

\* json.loads of an object's members in wire order: a repeated name keeps
\* its first position and takes its last value
RECURSIVE LoadMembers(_, _)
LoadMembers(members, d) ==
  IF members = <<>>
    THEN d
    ELSE LoadMembers(Tail(members), DictSet(d, Head(members)[1], Head(members)[2]))

(***************************************************************************)
(* A response body as read by post_form (resp.read().decode()).  kind      *)
(* "object" is the text of a JSON object with the given members; "text"    *)
(* is a body that is no JSON; "scalar" is valid JSON that is no object     *)
(* (null); "raise" stands for urlopen raising (transport failure or an     *)
(* HTTP error status) instead of returning a body.                         *)
(***************************************************************************)
Body(members) == [kind |-> "object", members |-> members, raw |-> ""]
TextBody(raw) == [kind |-> "text", members |-> <<>>, raw |-> raw]
ScalarBody == [kind |-> "scalar", members |-> <<>>, raw |-> "null"]
NoBody == [kind |-> "raise", members |-> <<>>, raw |-> ""]

\* json.loads(payload) where it returns a dict
json_loads(payload) == LoadMembers(payload.members, <<>>)

\* json.dumps(obj, indent=2): the text of a JSON object whose members are
\* the dict's items in the dict's order
json_dumps(obj) == Body(obj)

(***************************************************************************)
(* Strings whose characters matter (the base URL) are sequences of         *)
(* one-character strings.                                                  *)
(***************************************************************************)
\* s.rstrip('/')
RECURSIVE rstrip(_)
rstrip(s) ==
  IF s # <<>> /\ s[Len(s)] = "/"
    THEN rstrip(SubSeq(s, 1, Len(s) - 1))
    ELSE s

(***************************************************************************)
(* One printed line: what was printed (tag), the value formatted into it   *)
(* and, for a printed document (json.dumps output, a raw body), its text.  *)
(***************************************************************************)
Line(tag, val, doc) == [tag |-> tag, val |-> val, doc |-> doc]
Text(tag) == Line(tag, PyNone, TextBody(""))
Value(tag, val) == Line(tag, val, TextBody(""))
Doc(tag, doc) == Line(tag, PyNone, doc)

(***************************************************************************)
(* The environment the model draws from.                                   *)
(***************************************************************************)
\* os.environ: a variable is unset, or set to a (possibly empty) string
Unset == [set |-> FALSE, val |-> <<>>]
SetTo(chars) == [set |-> TRUE, val |-> chars]

Required == <<"KEYCLOAK_URL", "REALM", "CLIENT_ID", "CLIENT_SECRET">>
EnvNames == {Required[i] : i \in 1..Len(Required)} \cup {"SCOPE"}

EnvChoices(name) ==
  CASE name = "KEYCLOAK_URL" -> {Unset, SetTo(<<>>), SetTo(<<"k", "c", "/">>)}
    [] name = "REALM" -> {Unset, SetTo(<<>>), SetTo(<<"r">>)}
    [] name = "CLIENT_ID" -> {Unset, SetTo(<<>>), SetTo(<<"i">>)}
    [] name = "CLIENT_SECRET" -> {Unset, SetTo(<<>>), SetTo(<<"s">>)}
    [] OTHER -> {Unset, SetTo(<<"o">>)}

\* "openid email profile groups"
DefaultScope == <<"d">>

Hints == 0..MaxHint

\* the interval / expires_in members a device-authorization response may
\* carry: none, an integer, a float, a string of digits, a string of
\* letters, null
TimingGrid ==
  {<<>>} \cup {<<<<"interval", JInt(i)>>>> : i \in Hints}
         \cup {<<<<"expires_in", JInt(e)>>>> : e \in Hints}
         \cup {<<<<"interval", JInt(i)>>, <<"expires_in", JInt(e)>>>> :
                 i \in Hints, e \in Hints}
TimingOdd ==
  { <<<<"interval", JFloat(1)>>, <<"expires_in", JNumStr(MaxHint)>>>>,
    <<<<"interval", JStr("soon")>>>>,
    <<<<"expires_in", PyNone>>>> }

Complete ==
  <<<<"device_code", JStr("D1")>>, <<"user_code", JStr("ABCD")>>,
    <<"verification_uri", JStr("V")>>>>

\* complete responses that name the verification URI in other ways
UriForms ==
  { <<<<"device_code", JStr("D1")>>, <<"user_code", JStr("ABCD")>>,
      <<"verification_uri_complete", JStr("VC")>>>>,
    <<<<"device_code", JStr("D1")>>, <<"user_code", JStr("ABCD")>>,
      <<"verification_uri", JStr("")>>,
      <<"verification_uri_complete", JStr("VC")>>>>,
    <<<<"device_code", JStr("D1")>>, <<"user_code", JStr("ABCD")>>,
      <<"verification_uri", JStr("V")>>,
      <<"verification_uri_complete", JStr("VC")>>>> }

\* responses that lack device_code, user_code or a verification URI
Incomplete ==
  { <<>>,
    <<<<"user_code", JStr("ABCD")>>, <<"verification_uri", JStr("V")>>>>,
    <<<<"device_code", JStr("")>>, <<"user_code", JStr("ABCD")>>,
      <<"verification_uri", JStr("V")>>>>,
    <<<<"device_code", JStr("D1")>>, <<"verification_uri", JStr("V")>>>>,
    <<<<"device_code", JStr("D1")>>, <<"user_code", PyNone>>,
      <<"verification_uri_complete", JStr("VC")>>>>,
    <<<<"device_code", JStr("D1")>>, <<"user_code", JStr("ABCD")>>>>,
    <<<<"device_code", JStr("D1")>>, <<"user_code", JStr("ABCD")>>,
      <<"verification_uri", JStr("")>>>>,
    <<<<"user_code", JStr("ABCD")>>, <<"verification_uri", JStr("V")>>,
      <<"interval", JStr("soon")>>>>,
    <<<<"device_code", JStr("D1")>>, <<"verification_uri", JStr("V")>>,
      <<"expires_in", PyNone>>>> }

\* responses with an `error` member
InitErrors ==
  { <<<<"error", JStr("invalid_scope")>>,
      <<"error_description", JStr("bad scope")>>>>,
    <<<<"error", JStr("invalid_client")>>>>,
    <<<<"error", JStr("invalid_client")>>, <<"error_description", JStr("")>>>>,
    <<<<"error", PyNone>>>>,
    <<<<"error", JStr("invalid_scope")>>, <<"device_code", JStr("D1")>>,
      <<"user_code", JStr("ABCD")>>, <<"verification_uri", JStr("V")>>>> }

\* what the device-authorization endpoint may answer
InitBodies ==
  {Body(Complete \o t) : t \in TimingGrid \cup TimingOdd}
    \cup {Body(m) : m \in UriForms \cup Incomplete \cup InitErrors}
    \cup {TextBody("<html>"), ScalarBody, NoBody}

Transient == {"authorization_pending", "slow_down"}

\* what the token endpoint may answer
TokenBodies ==
  {Body(m) : m \in
    { <<<<"error", JStr("authorization_pending")>>>>,
      <<<<"error", JStr("slow_down")>>>>,
      <<<<"error", JStr("authorization_pending")>>,
        <<"access_token", JStr("TOK1")>>>>,
      <<<<"error", JStr("access_denied")>>>>,
      <<<<"error", JStr("access_denied")>>,
        <<"error_description", JStr("denied")>>>>,
      <<<<"error", JStr("expired_token")>>, <<"error_description", JStr("")>>>>,
      <<<<"error", PyNone>>, <<"access_token", JStr("TOK1")>>>>,
      <<<<"access_token", JStr("TOK1")>>, <<"token_type", JStr("Bearer")>>>>,
      <<<<"token_type", JStr("Bearer")>>, <<"access_token", JStr("TOK2")>>>>,
      <<<<"access_token", JStr("TOK1")>>, <<"access_token", JStr("TOK2")>>>>,
      <<<<"access_token", JStr("")>>, <<"token_type", JStr("Bearer")>>>>,
      <<<<"token_type", JStr("Bearer")>>>>,
      <<>> }}
    \cup {TextBody("<html>"), ScalarBody, NoBody}

(***************************************************************************)
(* The state.                                                              *)
(***************************************************************************)
VARIABLES
  environ,          \* os.environ
  args_json,        \* args.json
  pc,               \* where main() is
  now,              \* time.time()
  init_resp,        \* main's locals, lines 53-87
  device_code,
  user_code,
  verification_uri,
  interval,
  expires_in,
  start,
  payload,          \* the body post_form read last
  token_resp,       \* main's local, line 93
  requests,         \* the POSTs sent, in order
  received,         \* the bodies the token endpoint returned, in order
  sleeps,           \* the arguments of the time.sleep calls, in order
  stdout,
  stderr,
  exit_status       \* the process's exit status, Running until it exits

vars ==
  <<environ, args_json, pc, now, init_resp, device_code, user_code,
    verification_uri, interval, expires_in, start, payload, token_resp,
    requests, received, sleeps, stdout, stderr, exit_status>>

locals ==
  <<init_resp, device_code, user_code, verification_uri, interval,
    expires_in, start, token_resp>>

Running == -1

Init ==
  /\ environ \in [EnvNames -> UNION {EnvChoices(name) : name \in EnvNames}]
  /\ \A name \in EnvNames : environ[name] \in EnvChoices(name)
  /\ args_json \in BOOLEAN
  /\ pc = "start"
  /\ now = 0
  /\ init_resp = <<>>
  /\ device_code = PyNone
  /\ user_code = PyNone
  /\ verification_uri = PyNone
  /\ interval = 0
  /\ expires_in = 0
  /\ start = 0
  /\ payload = NoBody
  /\ token_resp = <<>>
  /\ requests = <<>>
  /\ received = <<>>
  /\ sleeps = <<>>
  /\ stdout = <<>>
  /\ stderr = <<>>
  /\ exit_status = Running

(***************************************************************************)
(* require_env and the configuration, lines 11-16 and 44-51.               *)
(***************************************************************************)
\* Missing, wrongly accepting a variable that is set but empty
Missing_UnsetOnly(name) == ~environ[name].set

\* `not value` for value = os.environ.get(name)
Missing(name) == ~environ[name].set \/ environ[name].val = <<>>

\* require_env(name) where it returns
require_env(name) == environ[name].val

\* the first require_env call of lines 44-47 that exits, 0 when none does
FirstMissing ==
  IF \E i \in 1..Len(Required) : Missing(Required[i])
    THEN CHOOSE i \in 1..Len(Required) :
           /\ Missing(Required[i])
           /\ \A j \in 1..(i - 1) : ~Missing(Required[j])
    ELSE 0

keycloak_url == require_env("KEYCLOAK_URL")
realm == require_env("REALM")
client_id == require_env("CLIENT_ID")
client_secret == require_env("CLIENT_SECRET")
\* os.environ.get("SCOPE", "openid email profile groups")
scope == IF environ["SCOPE"].set THEN environ["SCOPE"].val ELSE DefaultScope

device_endpoint ==
  [base |-> rstrip(keycloak_url), realm |-> realm, path |-> "auth/device"]
token_endpoint ==
  [base |-> rstrip(keycloak_url), realm |-> realm, path |-> "token"]

\* the form of the device-authorization request, lines 55-59
DeviceForm ==
  [client_id |-> client_id, client_secret |-> client_secret, scope |-> scope]

\* the form of a token request, lines 95-100
TokenForm ==
  [grant_type |-> "urn:ietf:params:oauth:grant-type:device_code",
   device_code |-> device_code,
   client_id |-> client_id,
   client_secret |-> client_secret]

\* one urlopen call of post_form
Request(url, data) == [url |-> url, data |-> data]

(***************************************************************************)
(* Ways the process ends.                                                  *)
(***************************************************************************)
\* the process exits with `status` after writing `out` and `err`
Exit(out, err, status) ==
  /\ stdout' = stdout \o out
  /\ stderr' = stderr \o err
  /\ exit_status' = status
  /\ pc' = "done"

\* an exception nobody catches: traceback on stderr, exit status 1
Crash(exception) == Exit(<<>>, <<Value("traceback", JStr(exception))>>, 1)

\* NonJson, wrongly printing the body and carrying on with another attempt
NonJson_Retry(body) ==
  /\ stdout' = stdout \o <<Text("Non-JSON response:"), Doc("payload", body)>>
  /\ UNCHANGED <<stderr, exit_status, pc>>

\* post_form's except branch, lines 31-34
NonJson(body) ==
  Exit(<<Text("Non-JSON response:"), Doc("payload", body)>>, <<>>, 1)

\* lines 38-51: parse_args, the four require_env calls, the endpoints
Configure ==
  /\ pc = "start"
  /\ IF FirstMissing # 0
       THEN Exit(<<>>, <<Value("is required", JStr(Required[FirstMissing]))>>, 1)
       ELSE /\ pc' = "initiate"
            /\ UNCHANGED <<stdout, stderr, exit_status>>
  /\ UNCHANGED <<environ, args_json, now, locals, payload, requests, received,
                 sleeps>>

(***************************************************************************)
(* The device-authorization step, lines 53-85 (with post_form, 19-34).     *)
(***************************************************************************)
\* ErrorMessage, wrongly ignoring the description
ErrorMessage_CodeOnly(resp) == Get(resp, "error")

\* line 63 / line 108: resp.get("error_description") or resp.get("error")
ErrorMessage(resp) == PyOr(Get(resp, "error_description"), Get(resp, "error"))

\* lines 68-70
VerificationUri(resp) ==
  PyOr(Get(resp, "verification_uri"), Get(resp, "verification_uri_complete"))

\* line 74
MissingFields(dc, uc, vu) == ~Truthy(dc) \/ ~Truthy(uc) \/ ~Truthy(vu)

\* Instructions, wrongly leaving the user code out
Instructions_NoCode(vu, uc, exp) ==
  << Text("Open the following URL and enter the code:"),
     Value("verification_uri", vu),
     Value("Device code expires in", JInt(exp)),
     Text("Press ENTER after completing login in the browser...") >>

\* lines 79-85: the instructions and the input() prompt
Instructions(vu, uc, exp) ==
  << Text("Open the following URL and enter the code:"),
     Value("verification_uri", vu),
     Text("Code:"),
     Value("user_code", uc),
     Value("Device code expires in", JInt(exp)),
     Text("Press ENTER after completing login in the browser...") >>

\* lines 62-85 on the dict post_form returned
AfterInitiation(resp) ==
  LET dc == Get(resp, "device_code")
      uc == Get(resp, "user_code")
      vu == VerificationUri(resp)
      iv == GetOr(resp, "interval", JInt(DefaultInterval))
      ex == GetOr(resp, "expires_in", JInt(DefaultExpiresIn))
  IN
  /\ init_resp' = resp
  /\ IF Has(resp, "error")
       THEN /\ Exit(<<>>, <<Value("error", ErrorMessage(resp))>>, 1)
            /\ UNCHANGED <<device_code, user_code, verification_uri, interval,
                           expires_in>>
       ELSE
         /\ device_code' = dc
         /\ user_code' = uc
         /\ verification_uri' = vu
         /\ IF IntRaises(iv)
              THEN /\ Crash("int(interval)")
                   /\ UNCHANGED <<interval, expires_in>>
              ELSE
                /\ interval' = PyInt(iv)
                /\ IF IntRaises(ex)
                     THEN /\ Crash("int(expires_in)")
                          /\ UNCHANGED expires_in
                     ELSE
                       /\ expires_in' = PyInt(ex)
                       /\ IF MissingFields(dc, uc, vu)
                            THEN Exit(
                                   <<Doc("init_resp", json_dumps(resp))>>,
                                   <<Text("Missing device_code/user_code/verification_uri")>>,
                                   1)
                            ELSE /\ stdout' = stdout \o Instructions(vu, uc, PyInt(ex))
                                 /\ pc' = "input"
                                 /\ UNCHANGED <<stderr, exit_status>>

Initiate ==
  /\ pc = "initiate"
  /\ \E body \in InitBodies, d \in 0..MaxLatency :
       /\ now + d <= MaxTime
       /\ now' = now + d
       /\ requests' = Append(requests, Request(device_endpoint, DeviceForm))
       /\ CASE body.kind = "raise" ->
                 /\ Crash("urlopen")
                 /\ UNCHANGED <<payload, init_resp, device_code, user_code,
                                verification_uri, interval, expires_in>>
            [] body.kind = "text" ->
                 /\ payload' = body
                 /\ NonJson(body)
                 /\ UNCHANGED <<init_resp, device_code, user_code,
                                verification_uri, interval, expires_in>>
            [] body.kind = "scalar" ->
                 \* init_resp is no dict: line 62 or line 66 raises
                 /\ payload' = body
                 /\ Crash("init_resp is no dict")
                 /\ UNCHANGED <<init_resp, device_code, user_code,
                                verification_uri, interval, expires_in>>
            [] OTHER ->
                 /\ payload' = body
                 /\ AfterInitiation(json_loads(body))
  /\ UNCHANGED <<environ, args_json, start, token_resp, received, sleeps>>

\* line 85 returns with the operator's line, or raises EOFError; line 87
Acknowledge ==
  /\ pc = "input"
  /\ \E line \in BOOLEAN :
       IF line
         THEN /\ start' = now
              /\ pc' = "poll"
              /\ UNCHANGED <<stdout, stderr, exit_status>>
         ELSE /\ Crash("EOFError")
              /\ UNCHANGED start
  /\ UNCHANGED <<environ, args_json, now, init_resp, device_code, user_code,
                 verification_uri, interval, expires_in, payload, token_resp,
                 requests, received, sleeps>>

(***************************************************************************)
(* The poll loop, lines 88-119.                                            *)
(***************************************************************************)
\* Expired, wrongly allowing one more second
Expired_Late(t) == t - start > expires_in + 1

\* Expired, wrongly letting the last second of the window through
Expired_Strict(t) == t - start > expires_in

\* Expired, wrongly never giving up
Expired_Never(t) == FALSE

\* line 89
Expired(t) == t - start >= expires_in

\* IsTransient, wrongly retrying after every error
IsTransient_AnyError(err) == TRUE

\* line 105: err in ("authorization_pending", "slow_down")
IsTransient(err) == err.k = "str" /\ err.s \in Transient

TokenRequests == SelectSeq(requests, LAMBDA r : r.url.path = "token")

\* lines 89-101: the expiry check, then the token request goes out
PollCheck ==
  /\ pc = "poll"
  /\ IF Expired(now)
       THEN /\ Exit(<<>>, <<Text("Device code expired. Run the script again.")>>, 1)
            /\ UNCHANGED requests
       ELSE /\ Len(TokenRequests) < MaxPolls
            /\ requests' = Append(requests, Request(token_endpoint, TokenForm))
            /\ pc' = "await"
            /\ UNCHANGED <<stdout, stderr, exit_status>>
  /\ UNCHANGED <<environ, args_json, now, locals, payload, received, sleeps>>

\* Succeed, wrongly ignoring --json in one direction or the other
Succeed_AlwaysJson(resp) ==
  Exit(<<Doc("token_resp", json_dumps(resp))>>, <<>>, 0)

Succeed_NeverJson(resp) ==
  IF ~Truthy(Get(resp, "access_token"))
    THEN Exit(<<>>, <<Text("No access_token returned")>>, 1)
    ELSE Exit(<<Value("access_token", Get(resp, "access_token"))>>, <<>>, 0)

\* lines 111-119 on an error-free response
Succeed(resp) ==
  IF args_json
    THEN Exit(<<Doc("token_resp", json_dumps(resp))>>, <<>>, 0)
    ELSE IF ~Truthy(Get(resp, "access_token"))
           THEN Exit(<<>>, <<Text("No access_token returned")>>, 1)
           ELSE Exit(<<Value("access_token", Get(resp, "access_token"))>>, <<>>, 0)

\* AfterToken, wrongly checking the expiry again when the response arrives
AfterToken_ExpiryAfter(resp) ==
  /\ token_resp' = resp
  /\ IF now' - start >= expires_in
       THEN Exit(<<>>, <<Text("Device code expired. Run the script again.")>>, 1)
       ELSE IF Has(resp, "error")
              THEN IF IsTransient(Get(resp, "error"))
                     THEN /\ pc' = "sleep"
                          /\ UNCHANGED <<stdout, stderr, exit_status>>
                     ELSE Exit(<<>>, <<Value("error", ErrorMessage(resp))>>, 1)
              ELSE Succeed(resp)

\* AfterToken, wrongly looking for the token before looking for the error
AfterToken_TokenWins(resp) ==
  /\ token_resp' = resp
  /\ IF Truthy(Get(resp, "access_token"))
       THEN Succeed(resp)
       ELSE IF Has(resp, "error")
              THEN IF IsTransient(Get(resp, "error"))
                     THEN /\ pc' = "sleep"
                          /\ UNCHANGED <<stdout, stderr, exit_status>>
                     ELSE Exit(<<>>, <<Value("error", ErrorMessage(resp))>>, 1)
              ELSE Succeed(resp)

\* lines 103-119 on the dict post_form returned
AfterToken(resp) ==
  /\ token_resp' = resp
  /\ IF Has(resp, "error")
       THEN IF IsTransient(Get(resp, "error"))
              THEN /\ pc' = "sleep"
                   /\ UNCHANGED <<stdout, stderr, exit_status>>
              ELSE Exit(<<>>, <<Value("error", ErrorMessage(resp))>>, 1)
       ELSE Succeed(resp)

\* lines 27-34 and 103-119: the token response arrives
ReceiveToken ==
  /\ pc = "await"
  /\ \E body \in TokenBodies, d \in 0..MaxLatency :
       /\ now + d <= MaxTime
       /\ now' = now + d
       /\ CASE body.kind = "raise" ->
                 /\ Crash("urlopen")
                 /\ UNCHANGED <<payload, received, token_resp>>
            [] body.kind = "text" ->
                 /\ payload' = body
                 /\ received' = Append(received, body)
                 /\ NonJson(body)
                 /\ UNCHANGED token_resp
            [] body.kind = "scalar" ->
                 \* token_resp is no dict: line 103 raises
                 /\ payload' = body
                 /\ received' = Append(received, body)
                 /\ Crash("token_resp is no dict")
                 /\ UNCHANGED token_resp
            [] OTHER ->
                 /\ payload' = body
                 /\ received' = Append(received, body)
                 /\ AfterToken(json_loads(body))
  /\ UNCHANGED <<environ, args_json, init_resp, device_code, user_code,
                 verification_uri, interval, expires_in, start, requests,
                 sleeps>>

\* SleepArgument, wrongly backing off after slow_down (RFC 8628, 3.5)
SleepArgument_Backoff ==
  IF Get(token_resp, "error") = JStr("slow_down") THEN interval + 5 ELSE interval

\* line 106: the argument of time.sleep
SleepArgument == interval

\* line 106: time.sleep returns after at least the seconds asked for
Sleep ==
  /\ pc = "sleep"
  /\ \E over \in 0..MaxOversleep :
       /\ now + SleepArgument + over <= MaxTime
       /\ now' = now + SleepArgument + over
  /\ sleeps' = Append(sleeps, SleepArgument)
  /\ pc' = "poll"
  /\ UNCHANGED <<environ, args_json, locals, payload, requests, received,
                 stdout, stderr, exit_status>>

Next ==
  \/ Configure
  \/ Initiate
  \/ Acknowledge
  \/ PollCheck
  \/ ReceiveToken
  \/ Sleep

Spec == Init /\ [][Next]_vars

\* The poll loop keeps running: the interpreter goes on to the next
\* statement, every urlopen call returns or raises, every time.sleep call
\* returns.  Nothing makes the operator answer the prompt.
LiveSpec ==
  /\ Init
  /\ [][Next]_vars
  /\ WF_vars(PollCheck)
  /\ WF_vars(ReceiveToken)
  /\ WF_vars(Sleep)

(***************************************************************************)
(* What the properties below read off the wire and the output, without     *)
(* going through the program's own parsing.                                *)
(***************************************************************************)
\* the body is a JSON object with a member called `name`
Carries(body, name) ==
  /\ body.kind = "object"
  /\ \E i \in 1..Len(body.members) : body.members[i][1] = name

\* the value of the object's last member called `name`
Carried(body, name) ==
  LET at == {i \in 1..Len(body.members) : body.members[i][1] = name}
  IN body.members[CHOOSE i \in at : \A j \in at : j <= i][2]

\* the body is an object whose `name` is a non-empty string
CarriesText(body, name) ==
  /\ Carries(body, name)
  /\ Carried(body, name).k = "str"
  /\ Carried(body, name).s # ""

\* an authorization_pending or slow_down response
TransientBody(body) ==
  /\ CarriesText(body, "error")
  /\ Carried(body, "error").s \in {"authorization_pending", "slow_down"}

\* an error-free response with a non-empty access_token
TokenBody(body) ==
  /\ body.kind = "object"
  /\ ~Carries(body, "error")
  /\ CarriesText(body, "access_token")

LastReceived == received[Len(received)]
LastOut == stdout[Len(stdout)]
LastErr == stderr[Len(stderr)]
Prompted ==
  \E i \in 1..Len(stdout) :
    stdout[i].tag = "Press ENTER after completing login in the browser..."
ExpiredMessage == Text("Device code expired. Run the script again.")

\* what the server's error object asks to be shown: the description when
\* there is one, the error code when the description is absent
Shown(body) ==
  IF Carries(body, "error_description")
    THEN Carried(body, "error_description")
    ELSE Carried(body, "error")

\* the description is absent, or a non-empty string
PlainDescription(body) ==
  Carries(body, "error_description") => CarriesText(body, "error_description")

(***************************************************************************)
(* C1.  Without --json, when the token endpoint has answered k transient   *)
(* errors and then an error-free response with a non-empty access_token,   *)
(* the program has sent exactly k+1 token requests, has slept `interval`   *)
(* after each of the k transient responses, has printed exactly the        *)
(* access_token as its result and has exited with status 0.                *)
(***************************************************************************)
C1_PollUntilToken ==
  (~args_json /\ received # <<>> /\ TokenBody(LastReceived)) =>
    /\ pc = "done"
    /\ exit_status = 0
    /\ \A i \in 1..(Len(received) - 1) : TransientBody(received[i])
    /\ Len(TokenRequests) = Len(received)
    /\ sleeps = [i \in 1..(Len(received) - 1) |-> interval]
    /\ stdout = Instructions(verification_uri, user_code, expires_in)
                  \o <<Value("access_token", Carried(LastReceived, "access_token"))>>
    /\ stderr = <<>>

\* two transient responses, two sleeps of a positive interval, then the token
C1_Witness ==
  /\ ~args_json
  /\ Len(received) = 3
  /\ TokenBody(LastReceived)
  /\ interval > 0
  /\ sleeps = <<interval, interval>>
  /\ exit_status = 0

(***************************************************************************)
(* C2 as stated, in the case it names: the next response is a success.     *)
(* If the time since the poll loop started has exceeded expires_in by the  *)
(* time the run ends, the run ended with the expiration message on stderr  *)
(* and exit status 1, even when the token endpoint's last answer was an    *)
(* error-free response with an access_token.                               *)
(***************************************************************************)
C2_ExpiresWheneverTimeIsUp ==
  (/\ pc = "done"
   /\ now - start > expires_in
   /\ received # <<>>
   /\ TokenBody(LastReceived)) =>
    /\ exit_status = 1
    /\ stderr # <<>>
    /\ LastErr = ExpiredMessage

(***************************************************************************)
(* C2 as amended.  If at the expiry check at the top of a poll iteration   *)
(* the time since the poll loop started exceeds expires_in, the program    *)
(* prints the expiration message to stderr and exits with status 1; it     *)
(* sends no token request, so whatever the endpoint would answer next is   *)
(* never read.                                                             *)
(***************************************************************************)
C2_ExpiresAtCheck ==
  [][(pc = "poll" /\ now - start > expires_in) =>
       /\ pc' = "done"
       /\ exit_status' = 1
       /\ stderr' = Append(stderr, ExpiredMessage)
       /\ stdout' = stdout
       /\ requests' = requests
       /\ received' = received]_vars

\* the run ended by expiration after the endpoint had answered, with the
\* window exceeded
C2_Witness ==
  /\ pc = "done"
  /\ exit_status = 1
  /\ stderr # <<>>
  /\ LastErr = ExpiredMessage
  /\ now - start > expires_in
  /\ Len(received) >= 1
  /\ Len(TokenRequests) = Len(received)

(***************************************************************************)
(* C3.  The program exits with status 0 only when a token was obtained:    *)
(* whenever the exit status is 0, in either output mode, the last token    *)
(* response had no error and carried a non-empty access_token.             *)
(***************************************************************************)
C3_ExitZeroOnlyWithToken ==
  exit_status = 0 => (received # <<>> /\ TokenBody(LastReceived))

Lacks(body, name) ==
  /\ body.kind = "object"
  /\ Carries(body, name) =>
       \/ Carried(body, name).k = "null"
       \/ Carried(body, name).k = "str" /\ Carried(body, name).s = ""

\* the device-authorization endpoint has answered with the JSON object that
\* `payload` still holds
InitiationAnswered ==
  /\ Len(requests) >= 1
  /\ received = <<>>
  /\ pc \notin {"start", "initiate"}
  /\ payload.kind = "object"

\* the line shows the string `text`
Shows(line, text) ==
  \/ line.val = JStr(text)
  \/ \E i \in 1..Len(line.doc.members) : line.doc.members[i][2] = JStr(text)

(***************************************************************************)
(* C6.  When an error-free device-authorization response lacks (or has     *)
(* empty) device_code, or user_code, or both verification_uri and          *)
(* verification_uri_complete, the program has printed the diagnostic to    *)
(* stderr and the full response to stdout and exited with status 1,        *)
(* without prompting the operator or sending a token request; and the      *)
(* poll loop is entered only with device_code, user_code and a             *)
(* verification URI all present.                                           *)
(***************************************************************************)
C6_IncompleteInitiation ==
  /\ (/\ InitiationAnswered
      /\ ~Carries(payload, "error")
      /\ \/ Lacks(payload, "device_code")
         \/ Lacks(payload, "user_code")
         \/ Lacks(payload, "verification_uri")
              /\ Lacks(payload, "verification_uri_complete")) =>
       /\ pc = "done"
       /\ exit_status = 1
       /\ stderr = <<Text("Missing device_code/user_code/verification_uri")>>
       /\ stdout = <<Doc("init_resp", payload)>>
       /\ ~Prompted
       /\ TokenRequests = <<>>
  /\ (pc \in {"input", "poll", "await", "sleep"} \/ TokenRequests # <<>>) =>
       /\ Truthy(device_code)
       /\ Truthy(user_code)
       /\ Truthy(verification_uri)

(***************************************************************************)
(* C7.  If KEYCLOAK_URL, REALM, CLIENT_ID or CLIENT_SECRET is absent or    *)
(* empty, no request is ever sent, whatever the other variables hold, and  *)
(* once the configuration has been read the program has exited with        *)
(* status 1.                                                               *)
(***************************************************************************)
C7_MissingEnvironment ==
  \A name \in {"KEYCLOAK_URL", "REALM", "CLIENT_ID", "CLIENT_SECRET"} :
    (~environ[name].set \/ Len(environ[name].val) = 0) =>
      /\ requests = <<>>
      /\ received = <<>>
      /\ pc \in {"start", "done"}
      /\ pc = "done" => exit_status = 1

\* only CLIENT_SECRET is wrong: set, but empty
C7_Witness ==
  /\ pc = "done"
  /\ exit_status = 1
  /\ requests = <<>>
  /\ environ["CLIENT_SECRET"] = SetTo(<<>>)
  /\ \A name \in {"KEYCLOAK_URL", "REALM", "CLIENT_ID"} :
       environ[name].set /\ environ[name].val # <<>>

(***************************************************************************)
(* C8.  With --json, when the token endpoint's last answer is an           *)
(* error-free JSON object, the program has printed, as its last output, a  *)
(* JSON object with exactly the names of that answer, each with the value  *)
(* the answer gives it, and has exited with status 0.                      *)
(***************************************************************************)
C8_JsonRoundTrip ==
  (/\ args_json
   /\ received # <<>>
   /\ LastReceived.kind = "object"
   /\ ~Carries(LastReceived, "error")) =>
    /\ pc = "done"
    /\ exit_status = 0
    /\ stderr = <<>>
    /\ Len(stdout) = Len(Instructions(verification_uri, user_code, expires_in)) + 1
    /\ LastOut.tag = "token_resp"
    /\ LastOut.doc.kind = "object"
    /\ \A name \in {"error", "error_description", "access_token", "token_type"} :
         /\ Carries(LastOut.doc, name) <=> Carries(LastReceived, name)
         /\ Carries(LastReceived, name) =>
              /\ Carried(LastOut.doc, name) = Carried(LastReceived, name)
              /\ Cardinality({i \in 1..Len(LastOut.doc.members) :
                                LastOut.doc.members[i][1] = name}) = 1
    /\ Len(LastOut.doc.members) <= Len(LastReceived.members)

\* a two-member token response printed after one retried response
C8_Witness ==
  /\ args_json
  /\ exit_status = 0
  /\ Len(received) = 2
  /\ TransientBody(received[1])
  /\ Carries(LastReceived, "token_type")
  /\ CarriesText(LastReceived, "access_token")
  /\ Len(stdout) >= 1
  /\ LastOut.tag = "token_resp"

(***************************************************************************)
(* C9.  When the body post_form read is no JSON, at either endpoint, the   *)
(* program has printed the raw body to stdout and exited with status 1;    *)
(* each post_form call made one request (the device request and one per    *)
(* token answer), and nothing is sent afterwards.                          *)
(***************************************************************************)
C9_NonJsonIsFatal ==
  payload.kind = "text" =>
    /\ pc = "done"
    /\ exit_status = 1
    /\ Len(stdout) >= 2
    /\ stdout[Len(stdout) - 1] = Text("Non-JSON response:")
    /\ LastOut = Doc("payload", payload)
    /\ stderr = <<>>
    /\ Len(requests) = 1 + Len(received)
    /\ Len(TokenRequests) = Len(received)

\* a non-JSON body from the token endpoint after a retried response, and
\* one from the device-authorization endpoint
C9_Witness ==
  /\ payload.kind = "text"
  /\ pc = "done"
  /\ Len(received) = 2
  /\ Len(requests) = 3

C9_WitnessInit ==
  /\ payload.kind = "text"
  /\ pc = "done"
  /\ received = <<>>
  /\ Len(requests) = 1

(***************************************************************************)
(* C10.  The device_code the server returned is never written to stdout    *)
(* or stderr, on any path.                                                 *)
(***************************************************************************)
C10_DeviceCodeNeverShown ==
  /\ \A i \in 1..Len(stdout) : ~Shows(stdout[i], "D1")
  /\ \A i \in 1..Len(stderr) : ~Shows(stderr[i], "D1")

DeviceRequests == SelectSeq(requests, LAMBDA r : r.url.path = "auth/device")

\* every required variable is set and not empty
Configured ==
  \A name \in {"KEYCLOAK_URL", "REALM", "CLIENT_ID", "CLIENT_SECRET"} :
    environ[name].set /\ Len(environ[name].val) > 0

\* stdout shows the verification URL and the user code, then the prompt
Displayed ==
  \E i, j, k \in 1..Len(stdout) :
    /\ i < k /\ j < k
    /\ stdout[i].tag = "verification_uri" /\ stdout[i].val = verification_uri
    /\ stdout[j].tag = "user_code" /\ stdout[j].val = user_code
    /\ stdout[k].tag = "Press ENTER after completing login in the browser..."

(***************************************************************************)
(* C11 as stated, its count: every run that has ended sent exactly one     *)
(* device-authorization request.                                           *)
(***************************************************************************)
C11_ExactlyOneDeviceRequest ==
  pc = "done" => Len(DeviceRequests) = 1

(***************************************************************************)
(* C11 as amended.  Every run follows the order configuration ->           *)
(* initiation -> display -> acknowledgement -> poll -> outcome: a run      *)
(* whose configuration is complete sends exactly one device-authorization  *)
(* request (a run whose configuration is incomplete sends none), it is     *)
(* the first request and all later ones are token requests; the URL and    *)
(* the user code are on stdout before the prompt whenever the program      *)
(* waits for the operator or has polled; no token request exists before    *)
(* the operator's line was read, each one is sent from the top of a poll   *)
(* iteration, which is reached only from the acknowledgement or a sleep;   *)
(* and nothing changes once the run has ended.                             *)
(***************************************************************************)
C11_LinearOrder ==
  /\ [](/\ Len(DeviceRequests) <= 1
        /\ (Configured /\ pc \notin {"start", "initiate"}) =>
             Len(DeviceRequests) = 1
        /\ ~Configured => requests = <<>>
        /\ \A i \in 1..Len(requests) :
             requests[i].url.path = IF i = 1 THEN "auth/device" ELSE "token"
        /\ pc \in {"start", "initiate", "input"} => TokenRequests = <<>>
        /\ (pc = "input" \/ TokenRequests # <<>>) => Displayed)
  /\ [][/\ pc = "start" => pc' \in {"initiate", "done"}
        /\ pc = "initiate" => pc' \in {"input", "done"}
        /\ pc = "input" => pc' \in {"poll", "done"}
        /\ pc = "poll" => pc' \in {"await", "done"}
        /\ pc = "await" => pc' \in {"sleep", "done"}
        /\ pc = "sleep" => pc' = "poll"
        /\ Len(TokenRequests') > Len(TokenRequests) => pc = "poll"
        /\ pc = "done" => requests' = requests /\ pc' = "done"]_vars

\* a run through all the stages: one device request, two token requests
C11_Witness ==
  /\ pc = "done"
  /\ exit_status = 0
  /\ Len(DeviceRequests) = 1
  /\ Len(TokenRequests) = 2
  /\ Displayed

\* this step is the arrival of a token response
Arrival == pc = "await" /\ Len(received') = Len(received) + 1
Arrived == received'[Len(received')]

\* this step declares the expiration
Expiry == stderr' # stderr /\ stderr'[Len(stderr')] = ExpiredMessage

(***************************************************************************)
(* C12.  The expiry check is made only at the top of a poll iteration,     *)
(* before the token request: expiration is declared only from there and    *)
(* without a request going out; a token request goes out only while the    *)
(* elapsed time is below expires_in; and the response to it is processed   *)
(* normally however late it arrives: a token response ends the run with    *)
(* status 0 and the token printed, a transient response leads to the       *)
(* sleep.                                                                  *)
(***************************************************************************)
C12_ExpiryOnlyBeforeRequest ==
  [][/\ Expiry => (pc = "poll" /\ requests' = requests /\ now' = now)
     /\ Len(TokenRequests') > Len(TokenRequests) =>
          (pc = "poll" /\ now - start < expires_in)
     /\ (Arrival /\ TokenBody(Arrived)) =>
          /\ pc' = "done"
          /\ exit_status' = 0
          /\ stderr' = stderr
          /\ Len(stdout') = Len(stdout) + 1
     /\ (Arrival /\ TransientBody(Arrived)) =>
          /\ pc' = "sleep"
          /\ stderr' = stderr
          /\ stdout' = stdout]_vars

\* a token that arrived after the window had run out was accepted
C12_Witness ==
  /\ pc = "done"
  /\ exit_status = 0
  /\ received # <<>>
  /\ TokenBody(LastReceived)
  /\ now - start > expires_in
  /\ stderr = <<>>

\* a transient response arrived late, and the next check declared expiration
C12_WitnessLater ==
  /\ pc = "done"
  /\ stderr # <<>>
  /\ LastErr = ExpiredMessage
  /\ received # <<>>
  /\ TransientBody(LastReceived)
  /\ sleeps # <<>>

(***************************************************************************)
(* C13 as stated, one half: expiration is declared only when the elapsed   *)
(* time has exceeded expires_in (elapsed > expires_in); at elapsed equal   *)
(* to expires_in a token request goes out instead.                         *)
(***************************************************************************)
C13_ExpiresOnlyWhenExceeded ==
  (pc = "done" /\ stderr # <<>> /\ LastErr = ExpiredMessage) =>
    now - start > expires_in

(***************************************************************************)
(* C13 as amended.  At the top of each poll iteration the program declares *)
(* expiration exactly when the elapsed time has reached expires_in         *)
(* (elapsed >= expires_in): stderr gets the message, the exit status is 1  *)
(* and no request goes out; in every other case (elapsed < expires_in) it  *)
(* sends exactly one token request and declares nothing.                   *)
(***************************************************************************)
C13_ExpiresWhenReached ==
  [][pc = "poll" =>
       IF now - start >= expires_in
         THEN /\ Expiry
              /\ pc' = "done"
              /\ exit_status' = 1
              /\ requests' = requests
         ELSE /\ ~Expiry
              /\ pc' = "await"
              /\ exit_status' = exit_status
              /\ Len(requests') = Len(requests) + 1
              /\ Len(TokenRequests') = Len(TokenRequests) + 1]_vars

\* expires_in is 0: the first iteration declares expiration at elapsed 0
C13_Witness ==
  /\ pc = "done"
  /\ stderr # <<>>
  /\ LastErr = ExpiredMessage
  /\ expires_in = 0
  /\ now = start
  /\ TokenRequests = <<>>

\* expiration declared at the boundary after a poll
C13_WitnessBoundary ==
  /\ pc = "done"
  /\ stderr # <<>>
  /\ LastErr = ExpiredMessage
  /\ expires_in > 0
  /\ now - start = expires_in
  /\ TokenRequests # <<>>

(***************************************************************************)
(* C14.  After every authorization_pending or slow_down response the       *)
(* program sleeps for exactly `interval`, the same for both, and returns   *)
(* to the expiry check; device_code, interval, expires_in and the start    *)
(* time do not change during the poll loop, and every token request        *)
(* carries the device_code of the initiation response and the client_id    *)
(* and client_secret of the environment.                                   *)
(***************************************************************************)
C14_FixedIntervalAndFrame ==
  /\ [](/\ \A i \in 1..Len(sleeps) : sleeps[i] = interval
        /\ \A i \in 1..Len(sleeps) : TransientBody(received[i])
        /\ \A i \in 1..Len(TokenRequests) :
             /\ TokenRequests[i].data.device_code = device_code
             /\ TokenRequests[i].data.device_code
                  = Carried(Body(init_resp), "device_code")
             /\ TokenRequests[i].data.client_id = environ["CLIENT_ID"].val
             /\ TokenRequests[i].data.client_secret
                  = environ["CLIENT_SECRET"].val
             /\ TokenRequests[i] = TokenRequests[1])
  /\ [][/\ (Arrival /\ TransientBody(Arrived)) =>
             (pc' = "sleep" /\ sleeps' = sleeps)
        /\ pc = "sleep" =>
             /\ sleeps' = Append(sleeps, interval)
             /\ now' >= now + interval
             /\ pc' = "poll"
        /\ pc \in {"poll", "await", "sleep"} =>
             UNCHANGED <<device_code, interval, expires_in, start, init_resp,
                         environ>>]_vars

\* slow_down, then authorization_pending, each followed by the same sleep
C14_Witness ==
  /\ Len(sleeps) = 2
  /\ interval > 0
  /\ sleeps = <<interval, interval>>
  /\ Carried(received[1], "error").s = "slow_down"
  /\ Carried(received[2], "error").s = "authorization_pending"
  /\ Len(TokenRequests) = 3

\* ceil(a / b) for b >= 1
Ceil(a, b) == (a + b - 1) \div b

Polling == pc \in {"poll", "await", "sleep"}

\* the model's clock and request budget reach to the end of the window:
\* the last request goes out before start + expires_in, its answer takes at
\* most MaxLatency, and the sleep after it still fits
InHorizon ==
  /\ start + expires_in - 1 + MaxLatency + interval <= MaxTime
  /\ Ceil(expires_in, interval) <= MaxPolls

(***************************************************************************)
(* C15.  With interval >= 1 the poll loop is bounded: at most               *)
(* ceil(expires_in / interval) token requests are ever sent (none when     *)
(* expires_in <= 0), and, as long as every HTTP call and every sleep       *)
(* returns, a run that is polling ends with an exit status, whatever the   *)
(* server answers.                                                         *)
(***************************************************************************)
C15_BoundedPolling ==
  /\ [](interval >= 1 => Len(TokenRequests) <= Ceil(expires_in, interval))
  /\ []((interval >= 1 /\ expires_in <= 0) => TokenRequests = <<>>)
  /\ (Polling /\ interval >= 1 /\ InHorizon)
       ~> (pc = "done" /\ exit_status \in {0, 1})

\* the server answered authorization_pending or slow_down until the window
\* ran out: the bound is met with two requests, then expiration
C15_Witness ==
  /\ pc = "done"
  /\ interval >= 1
  /\ stderr # <<>>
  /\ LastErr = ExpiredMessage
  /\ Len(TokenRequests) = 2
  /\ Len(TokenRequests) = Ceil(expires_in, interval)
  /\ \A i \in 1..Len(received) : TransientBody(received[i])

\* the device-authorization response as main() keeps it
InitiationBody == Body(init_resp)

\* the initiation succeeded: the instructions were printed
Initiated == Prompted

\* the JSON value v is the integer n, as a number or as its digits
SameNumber(v, n) == v.k \in {"int", "numstr"} /\ v.n = n

\* the integer the JSON value v stands for, a fraction dropped
Whole(v) == v.n

(***************************************************************************)
(* C16 as stated, its second half: when the server supplies interval or    *)
(* expires_in, the value the program uses is the supplied value,           *)
(* unchanged.                                                              *)
(***************************************************************************)
C16_SuppliedUsedUnchanged ==
  Initiated =>
    /\ Carries(InitiationBody, "interval") =>
         SameNumber(Carried(InitiationBody, "interval"), interval)
    /\ Carries(InitiationBody, "expires_in") =>
         SameNumber(Carried(InitiationBody, "expires_in"), expires_in)

(***************************************************************************)
(* C16 as amended.  When the initiation response omits interval the poll   *)
(* loop sleeps 5 seconds between attempts, and when it omits expires_in    *)
(* the window of the expiry check is 600 seconds; when the server          *)
(* supplies an integer, that value (0 included) is used unchanged instead  *)
(* of the default, and a supplied number with a fraction is used with the  *)
(* fraction dropped.  The value is the one slept for, printed as the       *)
(* countdown and compared at the expiry check.                             *)
(***************************************************************************)
C16_DefaultsAndSupplied ==
  Initiated =>
    /\ interval = IF Carries(InitiationBody, "interval")
                    THEN Whole(Carried(InitiationBody, "interval"))
                    ELSE 5
    /\ expires_in = IF Carries(InitiationBody, "expires_in")
                      THEN Whole(Carried(InitiationBody, "expires_in"))
                      ELSE 600
    /\ \A i \in 1..Len(sleeps) : sleeps[i] = interval
    /\ \E i \in 1..Len(stdout) :
         /\ stdout[i].tag = "Device code expires in"
         /\ stdout[i].val = JInt(expires_in)
    /\ (stderr # <<>> /\ LastErr = ExpiredMessage) => now - start >= expires_in
    /\ pc = "await" => now - start < expires_in

\* neither value supplied: one sleep of 5 seconds, a window of 600
C16_Witness ==
  /\ Initiated
  /\ ~Carries(InitiationBody, "interval")
  /\ ~Carries(InitiationBody, "expires_in")
  /\ sleeps = <<5>>
  /\ expires_in = 600
  /\ pc = "await"
  /\ Len(TokenRequests) = 2

\* both supplied as integers, and slept for
C16_WitnessSupplied ==
  /\ Initiated
  /\ Carries(InitiationBody, "interval")
  /\ Carried(InitiationBody, "interval") = JInt(2)
  /\ Carries(InitiationBody, "expires_in")
  /\ Carried(InitiationBody, "expires_in") = JInt(1)
  /\ sleeps = <<2>>
  /\ stderr # <<>>
  /\ LastErr = ExpiredMessage

\* the stdout lines that are the program's result: the bare token, or the
\* token response as JSON
ResultLines ==
  {i \in 1..Len(stdout) : stdout[i].tag \in {"access_token", "token_resp"}}

\* the access_token values the token endpoint has sent so far
TokensReceived ==
  {Carried(received[i], "access_token").s : i \in
     {j \in 1..Len(received) : CarriesText(received[j], "access_token")}}

(***************************************************************************)
(* C17.  No failing run emits a token: when the exit status is 1, stdout   *)
(* holds no result line and shows no access_token the token endpoint sent  *)
(* (a body that is no JSON is dumped raw and carries no access_token       *)
(* member); a token response with an `error` member never leads to exit 0  *)
(* or to a result line, even when it carries an access_token; and the      *)
(* result is printed at most once, as the last line of stdout, with exit   *)
(* status 0.                                                               *)
(***************************************************************************)
C17_NoTokenOnFailure ==
  /\ exit_status = 1 =>
       /\ ResultLines = {}
       /\ \A i \in 1..Len(stdout) : \A t \in TokensReceived :
            ~Shows(stdout[i], t)
  /\ (received # <<>> /\ Carries(LastReceived, "error")) =>
       /\ exit_status # 0
       /\ ResultLines = {}
  /\ Cardinality(ResultLines) <= 1
  /\ ResultLines # {} =>
       /\ ResultLines = {Len(stdout)}
       /\ pc = "done"
       /\ exit_status = 0

\* an error response that also carried an access_token ended the run with
\* status 1 and no token on stdout
C17_Witness ==
  /\ pc = "done"
  /\ exit_status = 1
  /\ received # <<>>
  /\ Carries(LastReceived, "error")
  /\ CarriesText(LastReceived, "access_token")
  /\ ResultLines = {}

====
